---- MODULE Spec2Model ----
(***************************************************************************)
(* Model of src/src/main.js (Rive Gargoyle): the viseme/enum binder, its   *)
(* keyboard shortcuts and the timed reset to "none" (Spec, LiveSpec), and  *)
(* the generic state-machine-input binder of the same file (GenSpec).      *)
(*                                                                         *)
(* The page's state is the module-level variables of main.js, the part of  *)
(* the DOM the handlers read and write, the browser's timer queue and the  *)
(* values held by the runtime's enum properties.  The loaded asset (which  *)
(* properties and enums it declares) is drawn in Init and never changes.   *)
(***************************************************************************)
EXTENDS Integers, Sequences, FiniteSets, TLC

VARIABLES
    file,               \* the asset and page the session is built from (fixed)
    pc,                 \* "start" | "loading" | "loaded" | "failed" | "nocanvas"
    viewModelInstance,  \* TRUE when the module variable is non-null
    visemeProperty,     \* Null or the path of the bound enum property
    propValue,          \* the runtime's value of each enum property, by path
    currentEnumValues,  \* the labels the keyboard handler indexes
    resetTimer,         \* Null (0) or the id returned by setTimeout
    timers,             \* the browser's pending timeouts: [id, remaining]
    nextTimerId,        \* the id the next setTimeout returns
    readout,            \* text of #current-visemes .current-value, or NoElement
    buttons,            \* the .enum-button elements in document order
    active,             \* indices of the buttons carrying class "active"
    placeholderHidden,  \* .placeholder-text has display none
    hiddenSections,     \* section ids with display none
    log,                \* console lines written so far
    last,               \* the last event handled, with the state it found
    sinceActivation,    \* ms since the last value-setting input (saturating)
    inputs,             \* number of key and click events handled
    placeholderText,    \* text of .placeholder-text of the enum variant's page
    setBy               \* what wrote the held value last: load, keydown, click, reset

\* The generic state-machine-input binder (the second variant of main.js)
VARIABLES
    page,               \* the asset and page of the generic variant (fixed)
    gpc,                \* "start" | "loading" | "loaded" | "failed" | "nocanvas"
    riveInstance,       \* TRUE when the module variable is non-null
    stateMachineInputs, \* the module variable: [defined, list of input ids]
    inputValue,         \* the runtime's value of each input, by id
    fired,              \* how often each input's fire() has run, by id
    gPlaceholder,       \* .placeholder-text: [text, color, hidden]
    gHidden,            \* section ids whose display is none
    containers,         \* the controls in each container, in document order
    checked,            \* the checked state of each boolean control, by id
    slider,             \* the position of each number control, by id
    numberText,         \* the text readout of each number control, by id
    glog,               \* console lines written so far
    glast,              \* the last event handled, with the state it found
    calls,              \* number of interaction and helper events handled
    written             \* ids of the inputs a set...Input helper has written

enumVars == <<file, pc, viewModelInstance, visemeProperty, propValue,
              currentEnumValues, resetTimer, timers, nextTimerId, readout,
              buttons, active, placeholderHidden, hiddenSections, log, last,
              sinceActivation, inputs, placeholderText, setBy>>

genVars == <<page, gpc, riveInstance, stateMachineInputs, inputValue, fired,
             gPlaceholder, gHidden, containers, checked, slider, numberText,
             glog, glast, calls, written>>

vars == <<enumVars, genVars>>

----------------------------------------------------------------------------
(* Bounds of the model *)

MaxInputs == 2      \* key and click events in one behaviour
TickMs == 500       \* granularity of the clock

(* Program constants *)

RESET_DELAY_MS == 1000
MaxBadge == 9

Null == 0
NaN == -1
NoProperty == "null"
NoElement == "<no element>"
Undefined == "undefined"

visemesPropertyName == "visemes"
nestedPath == "viseme/visemes"
phonemesEnumName == "phonemes"

Paths == {visemesPropertyName, nestedPath}

----------------------------------------------------------------------------
(* The assets the model is run on *)

Scenario == <<"none", "AA", "E", "O">>
NoNone == <<"AA", "E">>
Repeated == <<"AA", "none", "AA">>
Long == <<"none", "AA", "E", "O", "U", "L", "M", "F", "S", "TH">>

LabelSeqs == {Scenario, NoNone, Repeated, Long}

Other == [name |-> "other", hasValues |-> TRUE, values |-> <<"x", "y">>]

EnumLists ==
    {<<>>, <<Other>>,
     <<[name |-> "Phonemes", hasValues |-> FALSE, values |-> <<>>]>>,
     <<[name |-> "phonemes", hasValues |-> TRUE, values |-> Scenario],
       [name |-> "PHONEMES", hasValues |-> TRUE, values |-> NoNone]>>}
    \cup {<<Other, [name |-> "Phonemes", hasValues |-> TRUE, values |-> L]>> :
            L \in LabelSeqs \ {Scenario}}

InitValues == {"none", "AA", ""}

Keys == {"0", "1", "2", "3", "4", "5", "6", "7", "8", "9", "a"}

Files ==
    [canvas : BOOLEAN,          \* #rive-canvas is in the document
     vmi : BOOLEAN,             \* the session has a view model instance
     props : SUBSET Paths,      \* the enum properties the view model has
     enumsIsArray : BOOLEAN,    \* enums() answers an array
     enums : EnumLists,         \* the enums the asset declares
     initValue : InitValues]    \* the value the properties hold at load

----------------------------------------------------------------------------
(* Library functions, as the handlers use them *)

Min(a, b) == IF a < b THEN a ELSE b
Max(a, b) == IF a > b THEN a ELSE b

\* String.prototype.toLowerCase on the names that occur
toLowerCase(s) ==
    CASE s = "Phonemes" -> "phonemes"
      [] s = "PHONEMES" -> "phonemes"
      [] OTHER -> s

\* parseInt(event.key): the leading decimal digits, NaN when there are none
parseInt(key) ==
    CASE key = "0" -> 0 [] key = "1" -> 1 [] key = "2" -> 2 [] key = "3" -> 3
      [] key = "4" -> 4 [] key = "5" -> 5 [] key = "6" -> 6 [] key = "7" -> 7
      [] key = "8" -> 8 [] key = "9" -> 9
      [] OTHER -> NaN

\* array[index] with a 0-based index: undefined outside the array
At(array, index) ==
    IF index + 1 \in DOMAIN array THEN array[index + 1] ELSE Undefined

\* array.includes(x)
includes(array, x) == \E k \in DOMAIN array : array[k] = x

\* array.find(e => e.name.toLowerCase() === enumName.toLowerCase())
findEnum(fileEnums, enumName) ==
    LET hits == {k \in DOMAIN fileEnums :
                    toLowerCase(fileEnums[k].name) = toLowerCase(enumName)}
    IN  IF hits = {} THEN <<>>
        ELSE <<fileEnums[CHOOSE k \in hits : \A j \in hits : k <= j]>>

\* viewModelInstance.enum(path): the property at that path, or null
vmEnum(path) == IF path \in file.props THEN path ELSE NoProperty

\* the value the bound property holds
Held == IF visemeProperty = NoProperty THEN Undefined
        ELSE propValue[visemeProperty]

Snapshot ==
    [value |-> propValue, readout |-> readout, active |-> active,
     timers |-> timers, resetTimer |-> resetTimer]

Event(op, key, index) ==
    [op |-> op, key |-> key, index |-> index, pre |-> Snapshot]

----------------------------------------------------------------------------
(* UI helpers *)

\* a display helper that finds no element to write to
updateCurrentDisplayStale(value) == readout

\* updateCurrentDisplay('visemes', value): the readout after the call
updateCurrentDisplay(value) ==
    IF readout # NoElement THEN value ELSE readout

\* classList.add on the matching buttons, the others left as they are
toggleActiveAddOnly(value) ==
    active \cup {k \in DOMAIN buttons : buttons[k].value = value}

\* the active marks after buttons.forEach(btn => btn.classList.toggle(...))
toggleActive(value) == {k \in DOMAIN buttons : buttons[k].value = value}

updateVisemeUI(value) ==
    /\ readout' = updateCurrentDisplay(value)
    /\ active' = toggleActive(value)

\* the reset without the test for "none" among the labels
resetVisemeUnguarded ==
    IF visemeProperty # NoProperty
    THEN /\ propValue' = [propValue EXCEPT ![visemeProperty] = "none"]
         /\ updateVisemeUI("none")
         /\ setBy' = "reset"
    ELSE UNCHANGED <<propValue, readout, active, setBy>>

\* the reset without the refresh of the display
resetVisemeNoRefresh ==
    IF visemeProperty # NoProperty /\ includes(currentEnumValues, "none")
    THEN /\ propValue' = [propValue EXCEPT ![visemeProperty] = "none"]
         /\ UNCHANGED <<readout, active>>
         /\ setBy' = "reset"
    ELSE UNCHANGED <<propValue, readout, active, setBy>>

resetVisemeToNone ==
    IF visemeProperty # NoProperty /\ includes(currentEnumValues, "none")
    THEN /\ propValue' = [propValue EXCEPT ![visemeProperty] = "none"]
         /\ updateVisemeUI("none")
         /\ setBy' = "reset"
    ELSE UNCHANGED <<propValue, readout, active, setBy>>

----------------------------------------------------------------------------
(* Control generation *)

\* the labels with a fallback to the first declared enum when none matches
enumValuesOfFirst(enumName) ==
    IF file.enumsIsArray
    THEN LET m == findEnum(file.enums, enumName)
         IN  IF m # <<>> /\ m[1].hasValues THEN m[1].values
             ELSE IF file.enums # <<>> THEN file.enums[1].values ELSE <<>>
    ELSE <<>>

\* the labels createEnumControl reads from the asset
enumValuesOf(enumName) ==
    IF file.enumsIsArray
    THEN LET m == findEnum(file.enums, enumName)
         IN  IF m # <<>> /\ m[1].hasValues THEN m[1].values ELSE <<>>
    ELSE <<>>

\* the buttons with a badge on the first ten
makeButtonsTen(enumValues) ==
    [k \in DOMAIN enumValues |->
        [value |-> enumValues[k],
         badge |-> IF k - 1 <= MaxBadge THEN k ELSE 0]]

\* one button per label; badge 0 stands for no key badge
makeButtons(enumValues) ==
    [k \in DOMAIN enumValues |->
        [value |-> enumValues[k],
         badge |-> IF k - 1 < MaxBadge THEN k ELSE 0]]

createEnumControl(enumProperty, enumName) ==
    LET enumValues == enumValuesOf(enumName)
        v == propValue[enumProperty]
    IN  /\ currentEnumValues' = enumValues
        /\ readout' = (IF v # "" THEN v ELSE "none")
        /\ buttons' = makeButtons(enumValues)
        /\ active' = {k \in DOMAIN enumValues : enumValues[k] = v}

\* the setup with the direct lookup alone, no nested path tried
setupViewModelControlsDirectOnly ==
    LET found == vmEnum(visemesPropertyName)
    IN  /\ placeholderHidden' = TRUE
        /\ visemeProperty' = found
        /\ IF found # NoProperty
           THEN /\ createEnumControl(found, phonemesEnumName)
                /\ UNCHANGED log
           ELSE /\ log' = log \cup {"warn: visemes property not found on View Model"}
                /\ UNCHANGED <<currentEnumValues, readout, buttons, active>>
        /\ hiddenSections' = hiddenSections \cup
              {"numbers-section", "triggers-section", "booleans-section"}

setupViewModelControls ==
    LET direct == vmEnum(visemesPropertyName)
        found == IF direct # NoProperty THEN direct ELSE vmEnum(nestedPath)
    IN  /\ placeholderHidden' = TRUE
        /\ visemeProperty' = found
        /\ IF found # NoProperty
           THEN /\ createEnumControl(found, phonemesEnumName)
                /\ UNCHANGED log
           ELSE /\ log' = log \cup {"warn: visemes property not found on View Model"}
                /\ UNCHANGED <<currentEnumValues, readout, buttons, active>>
        /\ hiddenSections' = hiddenSections \cup
              {"numbers-section", "triggers-section", "booleans-section"}

----------------------------------------------------------------------------
(* The generic variant: the assets it is run on *)

MaxCalls == 2       \* interaction and helper events in one behaviour

TriggerTag == 56
BooleanTag == 59
NumberTag == 58

PlaceholderInitial == "placeholder"
LoadErrorText == "Error loading .riv file"
ErrorColor == "#ff6b6b"

Sections == {"triggers-section", "booleans-section", "numbers-section"}

\* the values an input can hold; numbers are counted in tenths
NoV == [t |-> "none", b |-> FALSE, n |-> 0]
BoolV(b) == [t |-> "bool", b |-> b, n |-> 0]
NumV(n) == [t |-> "num", b |-> FALSE, n |-> n]

Inp(name, type, hasFire, value) ==
    [name |-> name, type |-> type, hasFire |-> hasFire, value |-> value]

InputLists ==
    {<<>>,
     <<Inp("go", TriggerTag, TRUE, NoV), Inp("flag", BooleanTag, FALSE, BoolV(TRUE)),
       Inp("speed", NumberTag, FALSE, NumV(375))>>,
     <<Inp("flag", BooleanTag, TRUE, BoolV(FALSE)), Inp("mystery", 57, FALSE, NoV),
       Inp("go", TriggerTag, TRUE, NoV)>>,
     <<Inp("mystery", 57, FALSE, NoV)>>,
     <<Inp("speed", NumberTag, TRUE, NumV(0)), Inp("flag", BooleanTag, FALSE, BoolV(TRUE)),
       Inp("flag", BooleanTag, FALSE, BoolV(FALSE))>>}

Names == {"go", "flag", "speed", "mystery", "absent"}
SlideValues == {0, 374, 1000}
Ids == 1 .. 3

Pages ==
    [canvas : BOOLEAN,          \* #rive-canvas is in the document
     ctorThrows : BOOLEAN,      \* new Rive(...) throws
     hasList : BOOLEAN,         \* stateMachineInputs(name) answers an array
     inputs : InputLists,       \* the inputs of the state machine
     hidden : {{}, Sections}]   \* the sections the page's own styling hides

ParkedPage ==
    [canvas |-> FALSE, ctorThrows |-> FALSE, hasList |-> FALSE,
     inputs |-> <<>>, hidden |-> {}]

GenSnapshot ==
    [value |-> inputValue, fired |-> fired, checked |-> checked,
     list |-> stateMachineInputs]

GenEvent(op, name, id, raised) ==
    [op |-> op, name |-> name, id |-> id, raised |-> raised,
     pre |-> GenSnapshot]

\* the state of the generic variant once its module has been evaluated
GenStart(p) ==
    /\ page = p
    /\ gpc = "start"
    /\ riveInstance = FALSE
    /\ stateMachineInputs = [defined |-> TRUE, list |-> <<>>]
    /\ inputValue = [i \in Ids |-> IF i \in DOMAIN p.inputs
                                   THEN p.inputs[i].value ELSE NoV]
    /\ fired = [i \in Ids |-> 0]
    /\ gPlaceholder = [text |-> PlaceholderInitial, color |-> "", hidden |-> FALSE]
    /\ gHidden = p.hidden
    /\ containers = [c \in Sections |-> <<>>]
    /\ checked = [i \in Ids |-> FALSE]
    /\ slider = [i \in Ids |-> 0]
    /\ numberText = [i \in Ids |-> 0]
    /\ glog = {}
    /\ glast = [op |-> "none", name |-> "", id |-> 0, raised |-> FALSE,
                pre |-> [value |-> [i \in Ids |-> IF i \in DOMAIN p.inputs
                                        THEN p.inputs[i].value ELSE NoV],
                         fired |-> [i \in Ids |-> 0],
                         checked |-> [i \in Ids |-> FALSE],
                         list |-> [defined |-> TRUE, list |-> <<>>]]]
    /\ calls = 0
    /\ written = {}

----------------------------------------------------------------------------
(* Initial state: the module has been evaluated, its listeners are attached *)

Init ==
    /\ file \in Files
    /\ pc = "start"
    /\ viewModelInstance = FALSE
    /\ visemeProperty = NoProperty
    /\ propValue = [p \in Paths |-> file.initValue]
    /\ currentEnumValues = <<>>
    /\ resetTimer = Null
    /\ timers = {}
    /\ nextTimerId = 1
    /\ readout = NoElement
    /\ buttons = <<>>
    /\ active = {}
    /\ placeholderHidden = FALSE
    /\ hiddenSections = {}
    /\ log = {}
    /\ last = [op |-> "none", key |-> "", index |-> NaN,
               pre |-> [value |-> [p \in Paths |-> file.initValue],
                        readout |-> NoElement, active |-> {}, timers |-> {},
                        resetTimer |-> Null]]
    /\ sinceActivation = RESET_DELAY_MS
    /\ inputs = 0
    /\ placeholderText = PlaceholderInitial
    /\ setBy = "load"
    /\ GenStart(ParkedPage)

----------------------------------------------------------------------------
(* Loading *)

\* DOMContentLoaded: initRive
initRive ==
    /\ pc = "start"
    /\ pc' = IF file.canvas THEN "loading" ELSE "nocanvas"
    /\ last' = Event("initRive", "", NaN)
    /\ UNCHANGED <<file, viewModelInstance, visemeProperty, propValue,
                   currentEnumValues, resetTimer, timers, nextTimerId, readout,
                   buttons, active, placeholderHidden, hiddenSections, log,
                   sinceActivation, inputs, placeholderText, setBy>>
    /\ UNCHANGED genVars

\* the session's onLoad callback
onLoad ==
    /\ pc = "loading"
    /\ pc' = "loaded"
    /\ viewModelInstance' = file.vmi
    /\ IF file.vmi
       THEN setupViewModelControls
       ELSE UNCHANGED <<visemeProperty, currentEnumValues, readout, buttons,
                        active, placeholderHidden, hiddenSections, log>>
    /\ last' = Event("onLoad", "", NaN)
    /\ UNCHANGED <<file, propValue, resetTimer, timers, nextTimerId,
                   sinceActivation, inputs, placeholderText, setBy>>
    /\ UNCHANGED genVars

\* the session's onLoadError callback
onLoadError ==
    /\ pc = "loading"
    /\ pc' = "failed"
    /\ log' = log \cup {"error: Error loading Rive file:"}
    /\ last' = Event("onLoadError", "", NaN)
    /\ UNCHANGED <<file, viewModelInstance, visemeProperty, propValue,
                   currentEnumValues, resetTimer, timers, nextTimerId, readout,
                   buttons, active, placeholderHidden, hiddenSections,
                   sinceActivation, inputs, placeholderText, setBy>>
    /\ UNCHANGED genVars

----------------------------------------------------------------------------
(* Input events and the timer *)

\* clearTimeout(id) with the handle forgotten: nothing is cancelled
clearTimeoutNothing(id) == timers

\* clearTimeout(id): the pending timeouts without that id
clearTimeout(id) == {t \in timers : t.id # id}

\* index = keyNum, the label one place too far
keyIndexSame(keyNum) == keyNum

\* const index = keyNum - 1
keyIndex(keyNum) == keyNum - 1

\* index <= currentEnumValues.length
inBoundsInclusive(index) == index <= Len(currentEnumValues)

\* index < currentEnumValues.length
inBounds(index) == index < Len(currentEnumValues)

\* the window keydown listener
keydown(key) ==
    LET keyNum == parseInt(key)
        index == keyIndex(keyNum)
        inRange == keyNum >= 1 /\ keyNum <= 9 /\ Len(currentEnumValues) > 0
        cleared == IF inRange /\ resetTimer # Null
                   THEN clearTimeout(resetTimer) ELSE timers
        applies == /\ inRange
                   /\ inBounds(index)
                   /\ visemeProperty # NoProperty
    IN  /\ IF applies
           THEN LET value == At(currentEnumValues, index)
                IN  /\ propValue' = [propValue EXCEPT ![visemeProperty] = value]
                    /\ updateVisemeUI(value)
                    /\ timers' = cleared \cup
                          {[id |-> nextTimerId, remaining |-> RESET_DELAY_MS]}
                    /\ resetTimer' = nextTimerId
                    /\ nextTimerId' = nextTimerId + 1
                    /\ sinceActivation' = 0
                    /\ setBy' = "keydown"
           ELSE /\ timers' = cleared
                /\ resetTimer' = (IF inRange THEN Null ELSE resetTimer)
                /\ UNCHANGED <<propValue, readout, active, nextTimerId,
                               sinceActivation, setBy>>
        /\ last' = Event("keydown", key, IF applies THEN index ELSE NaN)

Keydown ==
    /\ inputs < MaxInputs
    /\ \E key \in Keys : keydown(key)
    /\ inputs' = inputs + 1
    /\ UNCHANGED <<file, pc, viewModelInstance, visemeProperty,
                   currentEnumValues, buttons, placeholderHidden,
                   hiddenSections, log, placeholderText>>
    /\ UNCHANGED genVars

\* the click listener without the removal of the other marks
clickNoRemove(k) ==
    LET value == buttons[k].value
    IN  /\ propValue' = [propValue EXCEPT ![visemeProperty] = value]
        /\ active' = active \cup {k}
        /\ readout' = updateCurrentDisplay(value)
        /\ UNCHANGED <<timers, resetTimer, nextTimerId>>
        /\ sinceActivation' = 0
        /\ setBy' = "click"
        /\ last' = Event("click", "", k - 1)

\* the click listener of the button at position k (1-based)
click(k) ==
    LET value == buttons[k].value
    IN  /\ propValue' = [propValue EXCEPT ![visemeProperty] = value]
        /\ active' = {k}
        /\ readout' = updateCurrentDisplay(value)
        /\ UNCHANGED <<timers, resetTimer, nextTimerId>>
        /\ sinceActivation' = 0
        /\ setBy' = "click"
        /\ last' = Event("click", "", k - 1)

Click ==
    /\ inputs < MaxInputs
    /\ \E k \in DOMAIN buttons : click(k)
    /\ inputs' = inputs + 1
    /\ UNCHANGED <<file, pc, viewModelInstance, visemeProperty,
                   currentEnumValues, buttons, placeholderHidden,
                   hiddenSections, log, placeholderText>>
    /\ UNCHANGED genVars

\* a timeout that is due runs: the task leaves the queue, then the callback
fire(t) ==
    /\ t.remaining = 0
    /\ timers' = timers \ {t}
    /\ resetVisemeToNone
    /\ last' = Event("fire", "", t.id)

TimerFire ==
    /\ \E t \in timers : fire(t)
    /\ UNCHANGED <<file, pc, viewModelInstance, visemeProperty,
                   currentEnumValues, resetTimer, nextTimerId, buttons,
                   placeholderHidden, hiddenSections, log, sinceActivation,
                   inputs, placeholderText>>
    /\ UNCHANGED genVars

\* TickMs milliseconds pass
Tick ==
    /\ timers' = {[id |-> t.id, remaining |-> Max(0, t.remaining - TickMs)] :
                    t \in timers}
    /\ sinceActivation' = Min(RESET_DELAY_MS, sinceActivation + TickMs)
    /\ last' = Event("tick", "", NaN)
    /\ UNCHANGED <<file, pc, viewModelInstance, visemeProperty, propValue,
                   currentEnumValues, resetTimer, nextTimerId, readout,
                   buttons, active, placeholderHidden, hiddenSections, log,
                   inputs, placeholderText, setBy>>
    /\ UNCHANGED genVars

Next ==
    \/ initRive
    \/ onLoad
    \/ onLoadError
    \/ Keydown
    \/ Click
    \/ TimerFire
    \/ Tick

Spec == Init /\ [][Next]_vars

\* time passes, and a timeout that is due is eventually run
LiveSpec == Spec /\ WF_vars(Tick) /\ WF_vars(TimerFire)

----------------------------------------------------------------------------
(* The generic variant: control generation *)

\* truthiness of a value, as checkbox.checked = input.value coerces it
Truthy(v) == (v.t = "bool" /\ v.b) \/ (v.t = "num" /\ v.n # 0)

\* a range control keeps its value within [0, 100] (tenths: 0 .. 1000)
clampRange(n) == Max(0, Min(1000, n))

\* riveInstance.stateMachineInputs(name): the inputs, or undefined
runtimeInputs ==
    IF page.hasList
    THEN [defined |-> TRUE, list |-> [i \in DOMAIN page.inputs |-> i]]
    ELSE [defined |-> FALSE, list |-> <<>>]

\* a forEach that stops at the first input of an unknown type
visitedUntilUnknown(list) ==
    LET known(i) == page.inputs[i].type \in {TriggerTag, BooleanTag, NumberTag}
        stops == {k \in DOMAIN list : ~known(list[k])}
    IN  IF stops = {} THEN list
        ELSE SubSeq(list, 1, (CHOOSE k \in stops : \A j \in stops : k <= j) - 1)

\* the inputs stateMachineInputs.forEach visits, in order
visited(list) == list

\* the section a type tag's control goes to, or "" for an unknown tag
sectionOf(type) ==
    CASE type = TriggerTag -> "triggers-section"
      [] type = BooleanTag -> "booleans-section"
      [] type = NumberTag -> "numbers-section"
      [] OTHER -> ""

\* the controls createXControl appends to the container of section c
controlsOf(list, c) ==
    LET IsOf(i) == sectionOf(page.inputs[i].type) = c
        ids == SelectSeq(visited(list), IsOf)
    IN  [k \in DOMAIN ids |->
            [kind |-> c, input |-> ids[k], name |-> page.inputs[ids[k]].name]]

\* the ids among the visited inputs whose control is in section c
idsOf(list, c) ==
    {visited(list)[k] : k \in {j \in DOMAIN visited(list) :
        sectionOf(page.inputs[visited(list)[j]].type) = c}}

showLoadError ==
    gPlaceholder' = [gPlaceholder EXCEPT !.text = LoadErrorText,
                                         !.color = ErrorColor]

setupControls ==
    IF ~riveInstance
    THEN /\ glog' = glog \cup {<<"warn: Rive instance not ready", 0>>}
         /\ UNCHANGED <<stateMachineInputs, gPlaceholder, gHidden, containers,
                        checked, slider, numberText>>
    ELSE LET got == runtimeInputs
             list == got.list
         IN  /\ stateMachineInputs' = got
             /\ IF ~got.defined \/ Len(list) = 0
                THEN /\ glog' = glog \cup {<<"No state machine inputs found", 0>>}
                     /\ UNCHANGED <<gPlaceholder, gHidden, containers, checked,
                                    slider, numberText>>
                ELSE /\ glog' = glog \cup {<<"Found inputs:", 0>>}
                           \cup {<<"Unknown input type", visited(list)[k]>> :
                                   k \in {j \in DOMAIN visited(list) :
                                     sectionOf(page.inputs[visited(list)[j]].type) = ""}}
                     /\ gPlaceholder' = [gPlaceholder EXCEPT !.hidden = TRUE]
                     /\ containers' = [c \in Sections |-> controlsOf(list, c)]
                     /\ checked' = [i \in Ids |->
                            IF i \in idsOf(list, "booleans-section")
                            THEN Truthy(inputValue[i]) ELSE checked[i]]
                     /\ slider' = [i \in Ids |->
                            IF i \in idsOf(list, "numbers-section")
                            THEN clampRange(inputValue[i].n) ELSE slider[i]]
                     /\ numberText' = [i \in Ids |->
                            IF i \in idsOf(list, "numbers-section")
                            THEN inputValue[i].n ELSE numberText[i]]
                     /\ gHidden' = {c \in Sections : idsOf(list, c) = {}}

----------------------------------------------------------------------------
(* The generic variant: loading *)

\* DOMContentLoaded: initRive of the generic variant
initRiveGeneric ==
    /\ gpc = "start"
    /\ IF ~page.canvas
       THEN /\ gpc' = "nocanvas"
            /\ glog' = glog \cup {<<"error: Canvas element not found!", 0>>}
            /\ UNCHANGED <<riveInstance, gPlaceholder>>
       ELSE IF page.ctorThrows
       THEN /\ gpc' = "failed"
            /\ glog' = glog \cup {<<"error: Failed to initialize Rive:", 0>>}
            /\ showLoadError
            /\ UNCHANGED riveInstance
       ELSE /\ gpc' = "loading"
            /\ riveInstance' = TRUE
            /\ UNCHANGED <<glog, gPlaceholder>>
    /\ glast' = GenEvent("initRive", "", 0, FALSE)
    /\ UNCHANGED <<page, stateMachineInputs, inputValue, fired, gHidden,
                   containers, checked, slider, numberText, calls, written>>
    /\ UNCHANGED enumVars

\* the session's onLoad callback of the generic variant
onLoadGeneric ==
    /\ gpc = "loading"
    /\ gpc' = "loaded"
    /\ setupControls
    /\ glast' = GenEvent("onLoad", "", 0, FALSE)
    /\ UNCHANGED <<page, riveInstance, inputValue, fired, calls, written>>
    /\ UNCHANGED enumVars

\* the session's onLoadError callback of the generic variant
onLoadErrorGeneric ==
    /\ gpc = "loading"
    /\ gpc' = "failed"
    /\ glog' = glog \cup {<<"error: Error loading Rive file:", 0>>}
    /\ showLoadError
    /\ glast' = GenEvent("onLoadError", "", 0, FALSE)
    /\ UNCHANGED <<page, riveInstance, stateMachineInputs, inputValue, fired,
                   gHidden, containers, checked, slider, numberText, calls,
                   written>>
    /\ UNCHANGED enumVars

----------------------------------------------------------------------------
(* The generic variant: the listeners of the controls *)

ControlIds(c) == {containers[c][k].input : k \in DOMAIN containers[c]}

\* the click listener of a trigger control: input.fire()
TriggerClick ==
    /\ calls < MaxCalls
    /\ \E i \in ControlIds("triggers-section") :
        /\ fired' = [fired EXCEPT ![i] = fired[i] + 1]
        /\ glast' = GenEvent("trigger", page.inputs[i].name, i, FALSE)
    /\ calls' = calls + 1
    /\ UNCHANGED <<page, gpc, riveInstance, stateMachineInputs, inputValue,
                   gPlaceholder, gHidden, containers, checked, slider,
                   numberText, glog, written>>
    /\ UNCHANGED enumVars

\* a change listener that writes the state the checkbox has left
toggleInverted(i) ==
    /\ checked' = [checked EXCEPT ![i] = ~checked[i]]
    /\ inputValue' = [inputValue EXCEPT ![i] = BoolV(checked[i])]
    /\ glast' = GenEvent("toggle", page.inputs[i].name, i, FALSE)

\* the user toggles a boolean control; its change listener writes through
toggle(i) ==
    /\ checked' = [checked EXCEPT ![i] = ~checked[i]]
    /\ inputValue' = [inputValue EXCEPT ![i] = BoolV(checked'[i])]
    /\ glast' = GenEvent("toggle", page.inputs[i].name, i, FALSE)

Toggle ==
    /\ calls < MaxCalls
    /\ \E i \in ControlIds("booleans-section") : toggle(i)
    /\ calls' = calls + 1
    /\ UNCHANGED <<page, gpc, riveInstance, stateMachineInputs, fired,
                   gPlaceholder, gHidden, containers, slider, numberText, glog,
                   written>>
    /\ UNCHANGED enumVars

\* document.getElementById('value-' + name): the first readout of that name
readoutOf(name) ==
    LET c == containers["numbers-section"]
        hits == {k \in DOMAIN c : c[k].name = name}
    IN  c[CHOOSE k \in hits : \A j \in hits : k <= j].input

\* the user moves a number control; its input listener writes through
Slide ==
    /\ calls < MaxCalls
    /\ \E i \in ControlIds("numbers-section") : \E v \in SlideValues :
        /\ slider' = [slider EXCEPT ![i] = v]
        /\ inputValue' = [inputValue EXCEPT ![i] = NumV(v)]
        /\ numberText' = [numberText EXCEPT ![readoutOf(page.inputs[i].name)] = v]
        /\ glast' = GenEvent("slide", page.inputs[i].name, i, FALSE)
    /\ calls' = calls + 1
    /\ UNCHANGED <<page, gpc, riveInstance, stateMachineInputs, fired,
                   gPlaceholder, gHidden, containers, checked, glog, written>>
    /\ UNCHANGED enumVars

----------------------------------------------------------------------------
(* The generic variant: the exported helpers *)

\* stateMachineInputs.find(i => i.name === inputName): an id, or 0 for none
findInput(inputName) ==
    LET list == stateMachineInputs.list
        hits == {k \in DOMAIN list : page.inputs[list[k]].name = inputName}
    IN  IF hits = {} THEN 0
        ELSE list[CHOOSE k \in hits : \A j \in hits : k <= j]

\* .find on a variable that holds undefined throws a TypeError
Throws == ~stateMachineInputs.defined

triggerInput(inputName) ==
    LET input == findInput(inputName)
    IN  /\ IF ~Throws /\ input # 0 /\ page.inputs[input].hasFire
           THEN fired' = [fired EXCEPT ![input] = fired[input] + 1]
           ELSE UNCHANGED fired
        /\ UNCHANGED <<inputValue, written>>
        /\ glast' = GenEvent("triggerInput", inputName, input, Throws)

setBooleanInput(inputName, value) ==
    LET input == findInput(inputName)
    IN  /\ IF ~Throws /\ input # 0
           THEN /\ inputValue' = [inputValue EXCEPT ![input] = BoolV(value)]
                /\ written' = written \cup {input}
           ELSE UNCHANGED <<inputValue, written>>
        /\ UNCHANGED fired
        /\ glast' = GenEvent("setBooleanInput", inputName, input, Throws)

setNumberInput(inputName, value) ==
    LET input == findInput(inputName)
    IN  /\ IF ~Throws /\ input # 0
           THEN /\ inputValue' = [inputValue EXCEPT ![input] = NumV(value)]
                /\ written' = written \cup {input}
           ELSE UNCHANGED <<inputValue, written>>
        /\ UNCHANGED fired
        /\ glast' = GenEvent("setNumberInput", inputName, input, Throws)

HelperCall ==
    /\ calls < MaxCalls
    /\ \E name \in Names :
        \/ triggerInput(name)
        \/ \E b \in BOOLEAN : setBooleanInput(name, b)
        \/ \E v \in SlideValues : setNumberInput(name, v)
    /\ calls' = calls + 1
    /\ UNCHANGED <<page, gpc, riveInstance, stateMachineInputs, gPlaceholder,
                   gHidden, containers, checked, slider, numberText, glog>>
    /\ UNCHANGED enumVars

----------------------------------------------------------------------------
(* The generic variant: specification *)

\* the enum variant's variables, at rest
EnumParked ==
    /\ file = [canvas |-> FALSE, vmi |-> FALSE, props |-> {},
               enumsIsArray |-> FALSE, enums |-> <<>>, initValue |-> "none"]
    /\ pc = "start"
    /\ viewModelInstance = FALSE
    /\ visemeProperty = NoProperty
    /\ propValue = [p \in Paths |-> "none"]
    /\ currentEnumValues = <<>>
    /\ resetTimer = Null
    /\ timers = {}
    /\ nextTimerId = 1
    /\ readout = NoElement
    /\ buttons = <<>>
    /\ active = {}
    /\ placeholderHidden = FALSE
    /\ hiddenSections = {}
    /\ log = {}
    /\ last = [op |-> "none", key |-> "", index |-> NaN,
               pre |-> [value |-> [p \in Paths |-> "none"],
                        readout |-> NoElement, active |-> {}, timers |-> {},
                        resetTimer |-> Null]]
    /\ sinceActivation = RESET_DELAY_MS
    /\ inputs = 0
    /\ placeholderText = PlaceholderInitial
    /\ setBy = "load"

GenInit == EnumParked /\ \E p \in Pages : GenStart(p)

GenNext ==
    \/ initRiveGeneric
    \/ onLoadGeneric
    \/ onLoadErrorGeneric
    \/ TriggerClick
    \/ Toggle
    \/ Slide
    \/ HelperCall

GenSpec == GenInit /\ [][GenNext]_vars

----------------------------------------------------------------------------
(* Properties *)

\* the label sequence L the asset declares for the enum
Labels == enumValuesOf(phonemesEnumName)
LabelSet == {Labels[k] : k \in DOMAIN Labels}

\* the key that selects index i (0-based) is Digits[i + 1]
Digits == <<"1", "2", "3", "4", "5", "6", "7", "8", "9">>

\* the load has completed and the viseme property was found
Ready == pc = "loaded" /\ visemeProperty # NoProperty

\* the last event was a keydown of digit i + 1
KeyedIndex(i) == last.op = "keydown" /\ last.key = Digits[i + 1]

\* C1: after the load completed and the property was found, a keydown of
\* digit i+1 with i < |L| sets the held value to L[i] and leaves exactly one
\* reset task pending, a fresh one with the full delay, whatever was pending
\* before the keypress.
C1_KeySetsLabelAndOneReset ==
    \A i \in 0 .. 8 :
        (Ready /\ KeyedIndex(i) /\ i < Len(Labels)) =>
            /\ Held = Labels[i + 1]
            /\ Cardinality(timers) = 1
            /\ \A t \in timers : t.remaining = RESET_DELAY_MS
            /\ timers \cap last.pre.timers = {}

\* a key pressed while an earlier reset was pending
C1_Witness ==
    /\ Ready /\ KeyedIndex(2) /\ Labels = Scenario
    /\ last.pre.timers # {}
    /\ Held = "E"
    /\ Cardinality(timers) = 1

\* C2 (as stated): a keydown of digit i+1 with i >= |L| changes nothing: the
\* held value, the readout, the active marks and the pending reset task are
\* as the keypress found them.
C2_OutOfRangeKeyIsNoOp ==
    \A i \in 0 .. 8 :
        (KeyedIndex(i) /\ i >= Len(Labels)) =>
            /\ propValue = last.pre.value
            /\ readout = last.pre.readout
            /\ active = last.pre.active
            /\ timers = last.pre.timers

\* C3: at most one reset task is outstanding in every reachable state, and it
\* is the one the handle names: a newly scheduled reset has replaced the one
\* pending before.
C3_AtMostOneReset ==
    /\ Cardinality(timers) <= 1
    /\ \A t \in timers : t.id = resetTimer

\* a reset scheduled while another was pending, which it replaced
C3_Witness ==
    /\ last.op = "keydown"
    /\ last.pre.timers # {}
    /\ timers # {}
    /\ timers \cap last.pre.timers = {}
    /\ \A t \in last.pre.timers : t.remaining < RESET_DELAY_MS

\* the last event set a new value: a key within the labels, or a button
Activated == last.op = "click" \/ (last.op = "keydown" /\ last.index # NaN)

\* C4 (as stated): when a key or a button sets a new value while a reset is
\* pending, that reset is cancelled, so no reset reverts the value before the
\* full delay has passed since the latest activation.
C4_ActivationCancelsPendingReset ==
    /\ Activated => \A t \in last.pre.timers : \A u \in timers : u.id # t.id
    /\ (last.op = "fire" /\ last.pre.value # propValue) =>
            sinceActivation >= RESET_DELAY_MS

\* C5 (as stated): a button activation schedules a reset task, as a keypress
\* does: after it a reset with the full delay is pending.
C5_ClickSchedulesReset ==
    last.op = "click" =>
        \E t \in timers : t.remaining = RESET_DELAY_MS

\* C6: when "none" is not among the labels, a reset task that fires leaves
\* the held value, the readout and the active marks as it found them.
C6_ResetWithoutNoneChangesNothing ==
    (last.op = "fire" /\ "none" \notin LabelSet) =>
        /\ propValue = last.pre.value
        /\ readout = last.pre.readout
        /\ active = last.pre.active

\* a reset fired while a label was held and "none" is not a label
C6_Witness ==
    /\ last.op = "fire"
    /\ Labels = NoNone
    /\ Held = "E"
    /\ readout = "E"
    /\ active = {2}

\* C7: after a valid numeric keypress, unless a further key or button input
\* arrives, the reset eventually fires: when "none" is a label the held value
\* and the readout become "none" and no reset task remains pending.
C7_ResetEventuallyFires ==
    \A n \in 1 .. MaxInputs :
        (inputs = n /\ last.op = "keydown" /\ last.index # NaN
            /\ "none" \in LabelSet)
        ~> (inputs > n
            \/ (Held = "none" /\ readout = "none" /\ timers = {}))

\* the reset of a keypress has fired with no input after the keypress
C7_Witness ==
    /\ inputs = 1
    /\ last.op = "fire"
    /\ last.pre.value[visemeProperty] = "O"
    /\ last.pre.readout = "O"
    /\ Held = "none" /\ readout = "none" /\ timers = {}

\* C8 (as stated): with the labels none, AA, E, O found, key "2" sets the
\* held value to E, the readout shows E and the button at index 2 is active.
C8_KeyTwoSelectsE ==
    (currentEnumValues = Scenario /\ last.op = "keydown" /\ last.key = "2") =>
        /\ Held = "E"
        /\ readout = "E"
        /\ active = {3}

\* C8 (amended): with the labels none, AA, E, O found, key "2" sets the held
\* value to AA, the readout shows AA and the button at index 1 (the second
\* button, the one badged 2) is the active one.
C8_KeyTwoSelectsAA ==
    (currentEnumValues = Scenario /\ last.op = "keydown" /\ last.key = "2") =>
        /\ Held = "AA"
        /\ readout = "AA"
        /\ active = {2}
        /\ buttons[2].badge = 2

\* key "2" pressed while another button was active
C8_Witness ==
    /\ currentEnumValues = Scenario /\ last.op = "keydown" /\ last.key = "2"
    /\ last.pre.active = {4}
    /\ Held = "AA"

\* C9: activating the button for label X sets the readout to X and leaves
\* the activated button as the only one carrying the active mark.
C9_ClickMarksOnlyItsButton ==
    last.op = "click" =>
        /\ readout = buttons[last.index + 1].value
        /\ Held = buttons[last.index + 1].value
        /\ active = {last.index + 1}

\* a click while the buttons of another label were active
C9_Witness ==
    /\ last.op = "click"
    /\ last.index = 1
    /\ Labels = Repeated
    /\ last.pre.active = {1, 3}
    /\ active = {2}

\* C10: provided the value at load time is a label or "none", every enum
\* property holds a label or "none" after any sequence of events.
C10_HeldValueIsLabelOrNone ==
    file.initValue \in LabelSet \cup {"none"} =>
        \A p \in Paths : propValue[p] \in LabelSet \cup {"none"}

\* the last label selected by the last key that selects one
C10_Witness ==
    /\ file.initValue = "AA"
    /\ Labels = Long
    /\ KeyedIndex(8)
    /\ Held = "S"
    /\ inputs = 2

\* C11 (as stated): when the load fails the cause is logged, the placeholder
\* text is changed to the error message, no control is created and no retry
\* is made.  Here for the enum variant.
C11_LoadFailureShowsError ==
    pc = "failed" =>
        /\ "error: Error loading Rive file:" \in log
        /\ placeholderText = LoadErrorText
        /\ buttons = <<>> /\ readout = NoElement
        /\ ~ENABLED onLoad

\* the same for the generic variant, whose callback calls showLoadError
GenericLoadFailureShowsError ==
    gpc = "failed" =>
        /\ \E m \in glog : m[1] \in {"error: Error loading Rive file:",
                                     "error: Failed to initialize Rive:"}
        /\ gPlaceholder.text = LoadErrorText
        /\ \A c \in Sections : containers[c] = <<>>
        /\ ~ENABLED onLoadGeneric

\* the property the lookup order yields: the direct path, else the nested one
ExpectedProperty ==
    IF visemesPropertyName \in file.props THEN visemesPropertyName
    ELSE IF nestedPath \in file.props THEN nestedPath
    ELSE NoProperty

\* C12: the direct path is tried first and the nested one only if it is
\* absent; with either found, the enum control is generated from the labels
\* in the same way; with neither, no control is generated, a warning is
\* logged, the unused sections are still hidden and keys have no effect.
C12_LookupFallback ==
    (pc = "loaded" /\ file.vmi) =>
        /\ visemeProperty = ExpectedProperty
        /\ file.props # {} =>
            /\ currentEnumValues = Labels
            /\ readout # NoElement
            /\ Len(buttons) = Len(Labels)
            /\ \A k \in DOMAIN buttons : buttons[k].value = Labels[k]
            /\ "warn: visemes property not found on View Model" \notin log
        /\ file.props = {} =>
            /\ buttons = <<>> /\ readout = NoElement /\ active = {}
            /\ "warn: visemes property not found on View Model" \in log
            /\ propValue = [p \in Paths |-> file.initValue]
            /\ timers = {} /\ resetTimer = Null
        /\ {"numbers-section", "triggers-section", "booleans-section"}
              \subseteq hiddenSections

\* a key acting on the property found on the nested path only
C12_Witness ==
    /\ pc = "loaded"
    /\ file.props = {nestedPath}
    /\ visemeProperty = nestedPath
    /\ Len(buttons) = 4
    /\ KeyedIndex(1)
    /\ propValue[nestedPath] = "AA"

\* the ids of the inputs the runtime answers whose tag belongs to section c
DiscoveredOf(c) ==
    IF page.hasList
    THEN {i \in DOMAIN page.inputs :
            /\ c = "triggers-section" => page.inputs[i].type = TriggerTag
            /\ c = "booleans-section" => page.inputs[i].type = BooleanTag
            /\ c = "numbers-section" => page.inputs[i].type = NumberTag}
    ELSE {}

\* C13 (as stated): after setup every section with no discovered input of
\* its kind is hidden, also when no input was discovered at all, and every
\* section with an input of its kind is shown.
C13_EmptySectionsHidden ==
    gpc = "loaded" =>
        \A c \in Sections : (c \in gHidden) <=> (DiscoveredOf(c) = {})

\* the ids in s, in increasing order
RECURSIVE Ascending(_)
Ascending(s) ==
    IF s = {} THEN <<>>
    ELSE LET lo == CHOOSE i \in s : \A j \in s : i <= j
         IN  <<lo>> \o Ascending(s \ {lo})

\* C14: enumeration creates exactly one control for each discovered input
\* tagged Trigger, Boolean or Number, of that kind, in its container and in
\* the order of the list; an input with another tag gets a log line and no
\* control, and the inputs after it still get theirs.
C14_OneControlPerKnownInput ==
    (gpc = "loaded" /\ page.hasList /\ page.inputs # <<>>) =>
        /\ \A c \in Sections :
            LET ids == Ascending(DiscoveredOf(c))
            IN  /\ Len(containers[c]) = Len(ids)
                /\ \A k \in DOMAIN ids :
                    /\ containers[c][k].input = ids[k]
                    /\ containers[c][k].kind = c
                    /\ containers[c][k].name = page.inputs[ids[k]].name
        /\ \A i \in DOMAIN page.inputs :
            (\A c \in Sections : i \notin DiscoveredOf(c))
                <=> <<"Unknown input type", i>> \in glog

\* a trigger after an input of an unknown type has its control
C14_Witness ==
    /\ gpc = "loaded"
    /\ Len(page.inputs) = 3
    /\ page.inputs[2].type = 57
    /\ <<"Unknown input type", 2>> \in glog
    /\ Len(containers["triggers-section"]) = 1
    /\ containers["triggers-section"][1].input = 3

\* C15: a boolean control's checked state equals the bound input's value
\* when it is generated, each toggle writes the new checked state through,
\* and while only toggles write the input the two stay equal.
C15_BooleanWritesThrough ==
    /\ glast.op = "onLoad" =>
          \A i \in ControlIds("booleans-section") :
              checked[i] = page.inputs[i].value.b
    /\ glast.op = "toggle" =>
          /\ checked[glast.id] # glast.pre.checked[glast.id]
          /\ inputValue[glast.id] = BoolV(checked[glast.id])
    /\ \A i \in ControlIds("booleans-section") :
          i \notin written => inputValue[i] = BoolV(checked[i])

\* the second toggle of a control, back to the state it was generated in
C15_Witness ==
    /\ glast.op = "toggle"
    /\ calls = 2
    /\ written = {}
    /\ glast.pre.checked[glast.id] # page.inputs[glast.id].value.b
    /\ checked[glast.id] = page.inputs[glast.id].value.b
    /\ inputValue[glast.id] = page.inputs[glast.id].value

\* C16 (as stated): whenever the held value is "none" no reset task is
\* pending, for every label sequence.
C16_NoneMeansIdle ==
    (Ready /\ Held = "none") => timers = {}

\* C16 (amended): a reset task is pending while "none" is held only when a
\* key or a button itself selected a "none" label; "none" held since the load
\* or written by a reset has no reset task pending, and a reset that has fired
\* leaves none pending.
C16_NoneWithPendingResetWasSelected ==
    /\ (Ready /\ Held = "none" /\ timers # {}) => setBy \in {"keydown", "click"}
    /\ last.op = "fire" => timers = {}

\* the reset has written "none" and nothing is pending
C16_Witness ==
    /\ Ready
    /\ last.op = "fire"
    /\ setBy = "reset"
    /\ Held = "none"
    /\ last.pre.value[visemeProperty] = "AA"
    /\ timers = {}
    /\ inputs = 2

\* the labels are pairwise distinct
DistinctLabels == Cardinality(LabelSet) = Len(Labels)

\* C17: once the enum control exists, with distinct labels and a load-time
\* value among them, the readout equals the held value and the active
\* buttons are exactly those whose label is the held value.
C17_DisplayFollowsValue ==
    (Ready /\ DistinctLabels /\ file.initValue \in LabelSet) =>
        /\ readout = Held
        /\ active = {k \in DOMAIN buttons : buttons[k].value = Held}

\* the display after a click and the reset that followed a keypress
C17_Witness ==
    /\ Ready /\ DistinctLabels /\ file.initValue \in LabelSet
    /\ last.op = "fire"
    /\ last.pre.readout = "E"
    /\ last.pre.active = {3}
    /\ readout = "none"
    /\ active = {1}
    /\ inputs = 2

\* no labels are known: the control was never generated, or the asset
\* declares no enum of the configured name with values
NoLabelsKnown ==
    \/ pc # "loaded"
    \/ ~file.vmi
    \/ file.props = {}
    \/ ~file.enumsIsArray
    \/ LET hits == {k \in DOMAIN file.enums :
                      toLowerCase(file.enums[k].name) = phonemesEnumName}
       IN  \/ hits = {}
           \/ LET first == file.enums[CHOOSE k \in hits : \A j \in hits : k <= j]
              IN  ~first.hasValues \/ first.values = <<>>

\* C18: a keypress while no labels are known changes nothing: no value is
\* written, the display is as before, no reset task is scheduled or cancelled.
C18_KeysIgnoredWithoutLabels ==
    (last.op = "keydown" /\ NoLabelsKnown) =>
        /\ propValue = last.pre.value
        /\ readout = last.pre.readout
        /\ active = last.pre.active
        /\ timers = last.pre.timers
        /\ resetTimer = last.pre.resetTimer
        /\ timers = {}

\* key "1" after a load whose asset declares no enum of the configured name
C18_Witness ==
    /\ last.op = "keydown" /\ last.key = "1"
    /\ pc = "loaded" /\ file.vmi /\ file.props # {} /\ file.enumsIsArray
    /\ file.enums = <<Other>>
    /\ readout # NoElement

\* C19: the control has one button per label, in order; the button at
\* position k (0-based) carries the badge k+1 exactly when k < 9; the digit
\* on a badge is the key that selects that button's label; the buttons whose
\* label is the value at creation time are the ones marked active then.
C19_ButtonsAndBadges ==
    Ready =>
        /\ Len(buttons) = Len(Labels)
        /\ \A k \in DOMAIN buttons :
            /\ buttons[k].value = Labels[k]
            /\ IF k - 1 < 9 THEN buttons[k].badge = k ELSE buttons[k].badge = 0
        /\ \A i \in 0 .. 8 :
            (KeyedIndex(i) /\ last.index # NaN) =>
                \E k \in DOMAIN buttons :
                    buttons[k].badge = i + 1 /\ buttons[k].value = Held
        /\ \A k \in DOMAIN buttons :
            (buttons[k].badge # 0 /\ last.op = "keydown"
                /\ last.key = Digits[buttons[k].badge]) =>
                    Held = buttons[k].value
        /\ last.op = "onLoad" =>
            active = {k \in DOMAIN buttons : buttons[k].value = file.initValue}

\* ten labels: the tenth button has no badge, the one for the value is active
C19_Witness ==
    /\ Ready
    /\ last.op = "onLoad"
    /\ Labels = Long
    /\ file.initValue = "AA"
    /\ active = {2}
    /\ buttons[9].badge = 9
    /\ buttons[10].badge = 0

\* the last event was a call of an exported helper
HelperCalled == glast.op \in {"triggerInput", "setBooleanInput", "setNumberInput"}

\* no input of the list the helper searched has the name it was called with
NoMatch ==
    \A k \in DOMAIN glast.pre.list.list :
        page.inputs[glast.pre.list.list[k]].name # glast.name

\* C20 (as stated): a helper called with a name no discovered input has
\* changes no input and raises no error, and triggerInput on a matching
\* input without a fire operation fires nothing.
C20_HelpersActOnMatchOnly ==
    /\ (HelperCalled /\ NoMatch) =>
          /\ inputValue = glast.pre.value
          /\ fired = glast.pre.fired
          /\ ~glast.raised
    /\ (glast.op = "triggerInput" /\ glast.id # 0
            /\ ~page.inputs[glast.id].hasFire) =>
          fired = glast.pre.fired

====
